---- MODULE Spec2Model ----
(***************************************************************************)
(* Model of zapcli/cli.py: one invocation of the zap-cli command line.     *)
(* The state is the resolved options, the SOFT_FAIL environment variable,  *)
(* the position inside the command function, the remote calls issued on    *)
(* the ZAPHelper so far, the collected alerts and the process exit.        *)
(***************************************************************************)
EXTENDS Integers, Sequences, FiniteSets, TLC

\* ---------------------------------------------------------------- bounds
MaxAlerts == 2      \* longest alert list the daemon returns
MaxTimeout == 2     \* largest --timeout value (in poll intervals)
MaxLiveAt == 3      \* latest time at which the daemon becomes live

\* ------------------------------------------------------- program constants
ZapErrorExit == 2       \* exit status used by helpers.zap_error_handler
NotRunningExit == 2     \* sys.exit(2) in check_status
AlertsFoundExit == 1    \* exit_code = 1 in quick_scan / code = 1 in show_alerts
UncaughtExit == 1       \* interpreter status for an exception nobody catches
PollInterval == 1       \* time.sleep between two probes of wait_for_zap
UsageErrorExit == 2     \* exit status of click for a rejected parameter

None == "None"

Commands == {"start", "shutdown", "status", "open-url", "spider", "ajax-spider",
             "active-scan", "alerts", "quick-scan", "exclude", "report"}

\* ZAPHelper.alert_levels: the ordered severity scale
AlertLevels == <<"Informational", "Low", "Medium", "High">>

alert_levels(name) == CHOOSE i \in 1..Len(AlertLevels) : AlertLevels[i] = name

LevelNames == {AlertLevels[i] : i \in 1..Len(AlertLevels)}

\* Values the SOFT_FAIL environment variable is started with ("" = unset)
EnvValues == {"", "true", "false", "maybe"}

\* click's resolution of a boolean flag from its environment variable: any
\* non-empty value turns the flag on
EnvBool(v) == v /= ""

\* helpers.validate_scanner_list: every token is a scanner ID or a known group
ValidScanners(v) == v \in {None, "xss", "all"}

\* helpers.validate_regex: the pattern compiles
ValidRegex(v) == v \in {None, "logout"}

\* os.getenv("SOFT_FAIL") used as a condition: any non-empty string is truthy
Truthy(v) == v /= ""

RECURSIVE SeqsUpTo(_, _)
SeqsUpTo(S, n) ==
    IF n = 0 THEN {<<>>}
    ELSE LET shorter == SeqsUpTo(S, n - 1)
         IN shorter \cup {Append(s, x) : s \in {t \in shorter : Len(t) = n - 1}, x \in S}

\* ZAPHelper.alerts: the alerts at or above the requested level, in the
\* order the daemon returned them
FilterAlerts(raw, level) ==
    SelectSeq(raw, LAMBDA a : alert_levels(a) >= alert_levels(level))

VARIABLES
    cmd,            \* the sub-command of this invocation
    cli_soft_fail,  \* the group-level --soft-fail flag as typed
    environ0,       \* SOFT_FAIL as the process was started with it
    options,        \* the sub-command's options
    env,            \* os.environ["SOFT_FAIL"]
    pc,             \* position in the command function
    calls,          \* ZAPHelper operations called so far, in order
    failed,         \* the ZAPHelper operation that raised, or None
    alerts,         \* the list returned by zap_helper.alerts
    reported,       \* the list handed to helpers.report_alerts
    console,        \* messages written through console.info / console.error
    exited,         \* the process has exited
    exit_code,      \* its exit status
    daemon,         \* whether and when the daemon answers the probe
    clock,          \* time
    deadline        \* timeout_time of wait_for_zap

vars == <<cmd, cli_soft_fail, environ0, options, env, pc, calls, failed, alerts, reported,
          console, exited, exit_code, daemon, clock, deadline>>

DefaultOptions ==
    [self_contained |-> FALSE, scanners |-> None, exclude |-> None,
     spider |-> FALSE, ajax_spider |-> FALSE, alert_level |-> "High",
     context_name |-> None, user_name |-> None, soft_fail |-> FALSE,
     exit_code |-> TRUE, timeout |-> -1, output_format |-> "table"]

QuickScanOptions ==
    {[DefaultOptions EXCEPT !.self_contained = sc, !.scanners = s, !.exclude = e,
                            !.spider = sp, !.ajax_spider = aj, !.alert_level = l,
                            !.context_name = c, !.user_name = u, !.soft_fail = sf] :
        sc \in BOOLEAN, s \in {None, "xss", "bogus"}, e \in {None, "logout", "("},
        sp \in BOOLEAN, aj \in BOOLEAN, l \in {"Low", "High"},
        c \in {None, "ctx"}, u \in {None, "bob"}, sf \in BOOLEAN}

AlertsOptions ==
    {[DefaultOptions EXCEPT !.alert_level = l, !.exit_code = x] :
        l \in LevelNames, x \in BOOLEAN}

ActiveScanOptions ==
    {[DefaultOptions EXCEPT !.scanners = s, !.context_name = c, !.user_name = u,
                            !.soft_fail = sf] :
        s \in {None, "xss", "bogus"}, c \in {None, "ctx"}, u \in {None, "bob"},
        sf \in BOOLEAN}

ExcludeOptions ==
    {[DefaultOptions EXCEPT !.exclude = e] : e \in {"logout", "("}}

ReportOptions ==
    {[DefaultOptions EXCEPT !.output_format = f] : f \in {"xml", "html", "md"}}

SpiderOptions ==
    {[DefaultOptions EXCEPT !.context_name = c, !.user_name = u] :
        c \in {None, "ctx"}, u \in {None, "bob"}}

StatusOptions ==
    {[DefaultOptions EXCEPT !.timeout = t] : t \in -1..MaxTimeout}

Daemons == {[starts |-> s, at |-> t] : s \in BOOLEAN, t \in 0..MaxLiveAt}

Init ==
    /\ cmd \in Commands
    /\ cli_soft_fail \in BOOLEAN
    /\ env \in EnvValues
    /\ environ0 = env
    /\ options \in CASE cmd = "quick-scan" -> QuickScanOptions
                     [] cmd = "alerts" -> AlertsOptions
                     [] cmd = "active-scan" -> ActiveScanOptions
                     [] cmd = "exclude" -> ExcludeOptions
                     [] cmd = "report" -> ReportOptions
                     [] cmd = "spider" -> SpiderOptions
                     [] cmd = "status" -> StatusOptions
                     [] OTHER -> {DefaultOptions}
    /\ daemon \in IF cmd = "status" THEN {d \in Daemons : d.starts \/ d.at = 0}
                  ELSE {[starts |-> TRUE, at |-> 0]}
    /\ pc = "cli"
    /\ calls = <<>>
    /\ failed = None
    /\ alerts = <<>>
    /\ reported = <<>>
    /\ console = <<>>
    /\ exited = FALSE
    /\ exit_code = 0
    /\ clock = 0
    /\ deadline = 0

\* ------------------------------------------------------------ process exit
\* sys.exit(code)
SysExit(code) ==
    /\ exited' = TRUE
    /\ exit_code' = code
    /\ pc' = "done"

\* helpers.zap_error_handler: a ZAPError raised inside the block is written
\* to the console and the process exits
ZapErrorHandler(op, out) ==
    /\ failed' = op
    /\ console' = Append(out, "error")
    /\ SysExit(ZapErrorExit)

\* an exception raised outside every handler ends the process with status 1;
\* the interpreter writes the traceback to the error stream, not through the
\* console logger
Uncaught(op) ==
    /\ failed' = op
    /\ console' = console
    /\ SysExit(UncaughtExit)

\* the command function returned: click ends the process with status 0
Return ==
    /\ exited' = TRUE
    /\ exit_code' = 0
    /\ pc' = "done"

Entry(c) ==
    CASE c = "quick-scan" -> "start"
      [] c = "alerts" -> "sa_alerts"
      [] c = "active-scan" -> "as_scanners"
      [] c = "exclude" -> "ex_exclude"
      [] c = "report" -> "rp_report"
      [] c = "start" -> "st_start"
      [] c = "shutdown" -> "sd_shutdown"
      [] c = "open-url" -> "ou_open"
      [] c = "spider" -> "sp_spider"
      [] c = "ajax-spider" -> "aj_spider"
      [] OTHER -> "status"

\* ------------------------------------------------------------------- cli()
\* mutant: quick-scan's --exclude has no validation callback
ParseErrorExcludeUnchecked(c, opts) ==
    \/ c \in {"quick-scan", "active-scan"} /\ ~ValidScanners(opts.scanners)
    \/ c = "exclude" /\ ~ValidRegex(opts.exclude)

\* The parameter callbacks of the sub-command reject one of its values
\* (callback=helpers.validate_scanner_list, callback=helpers.validate_regex).
ParseError(c, opts) ==
    \/ c \in {"quick-scan", "active-scan"} /\ ~ValidScanners(opts.scanners)
    \/ c \in {"quick-scan", "exclude"} /\ ~ValidRegex(opts.exclude)

\* click rejects a parameter: no command function is run; the usage message
\* goes to the error stream, not through the console logger
UsageError ==
    /\ failed' = "BadParameter"
    /\ console' = console
    /\ SysExit(UsageErrorExit)

\* The group callback, then the resolution of the sub-command's own
\* --soft-fail option (flag typed, or the SOFT_FAIL environment variable).
Cli ==
    /\ pc = "cli"
    /\ LET soft_fail == cli_soft_fail \/ EnvBool(env)
           env2 == IF soft_fail THEN "true" ELSE env
       IN /\ env' = env2
          /\ options' = [options EXCEPT !.soft_fail =
                            /\ cmd \in {"quick-scan", "active-scan"}
                            /\ (options.soft_fail \/ EnvBool(env2))]
          /\ IF ParseError(cmd, options)
             THEN UsageError
             ELSE /\ pc' = Entry(cmd)
                  /\ UNCHANGED <<failed, console, exited, exit_code>>
    /\ UNCHANGED <<cmd, cli_soft_fail, environ0, calls, alerts, reported, daemon, clock, deadline>>

\* --------------------------------------------------------------- helpers
\* mutant: an operation that raised is called a second time before giving up
GuardedRetry(op, next, msgs) ==
    \E ok \in BOOLEAN :
       IF ok
       THEN /\ calls' = Append(calls, op)
            /\ pc' = next
            /\ console' = console \o msgs
            /\ UNCHANGED <<failed, exited, exit_code>>
       ELSE /\ calls' = calls \o <<op, op>>
            /\ ZapErrorHandler(op, console \o msgs)

\* One ZAPHelper operation called inside "with helpers.zap_error_handler()":
\* it either returns, and the function goes on at next, or raises ZAPError.
Guarded(op, next, msgs) ==
    /\ calls' = Append(calls, op)
    /\ \E ok \in BOOLEAN :
          IF ok
          THEN /\ pc' = next
               /\ console' = console \o msgs
               /\ UNCHANGED <<failed, exited, exit_code>>
          ELSE ZapErrorHandler(op, console \o msgs)

\* An "if options[...]" whose condition is false: nothing is called.
Skip(next, msgs) ==
    /\ pc' = next
    /\ console' = console \o msgs
    /\ UNCHANGED <<calls, failed, exited, exit_code>>

\* ------------------------------------------------------------ quick_scan
\* mutant: the spider is run before the target is opened
StageAfterSpiderFirst(stage) ==
    CASE stage = "start" -> "scanners"
      [] stage = "scanners" -> "exclude"
      [] stage = "exclude" -> "spider"
      [] stage = "spider" -> "open_url"
      [] stage = "open_url" -> "ajax_spider"
      [] stage = "ajax_spider" -> "active_scan"
      [] stage = "active_scan" -> "alerts"
      [] stage = "alerts" -> "report"
      [] stage = "report" -> "shutdown"
      [] stage = "shutdown" -> "exit"
      [] OTHER -> "done"

\* the statement that follows each statement of quick_scan
StageAfter(stage) ==
    CASE stage = "start" -> "scanners"
      [] stage = "scanners" -> "exclude"
      [] stage = "exclude" -> "open_url"
      [] stage = "open_url" -> "spider"
      [] stage = "spider" -> "ajax_spider"
      [] stage = "ajax_spider" -> "active_scan"
      [] stage = "active_scan" -> "alerts"
      [] stage = "alerts" -> "report"
      [] stage = "report" -> "shutdown"
      [] stage = "shutdown" -> "exit"
      [] OTHER -> "done"

\* mutant: the daemon is started whether or not the run is self-contained
QuickScanStartAlways ==
    /\ pc = "start"
    /\ Guarded("start", StageAfter(pc), <<"Starting ZAP daemon">>)
    /\ UNCHANGED <<cmd, cli_soft_fail, environ0, options, env, alerts, reported, daemon, clock, deadline>>

\* if options['self_contained']: zap_helper.start(options['start_options'])
QuickScanStart ==
    /\ pc = "start"
    /\ IF options.self_contained
       THEN Guarded("start", StageAfter(pc), <<"Starting ZAP daemon">>)
       ELSE Skip(StageAfter(pc), <<>>)
    /\ UNCHANGED <<cmd, cli_soft_fail, environ0, options, env, alerts, reported, daemon, clock, deadline>>

\* if options['scanners']: zap_helper.set_enabled_scanners(...)
QuickScanScanners ==
    /\ pc = "scanners"
    /\ IF options.scanners /= None
       THEN Guarded("set_enabled_scanners", StageAfter(pc), <<"Running a quick scan">>)
       ELSE Skip(StageAfter(pc), <<"Running a quick scan">>)
    /\ UNCHANGED <<cmd, cli_soft_fail, environ0, options, env, alerts, reported, daemon, clock, deadline>>

\* if options['exclude']: zap_helper.exclude_from_all(...)
QuickScanExclude ==
    /\ pc = "exclude"
    /\ IF options.exclude /= None
       THEN Guarded("exclude_from_all", StageAfter(pc), <<>>)
       ELSE Skip(StageAfter(pc), <<>>)
    /\ UNCHANGED <<cmd, cli_soft_fail, environ0, options, env, alerts, reported, daemon, clock, deadline>>

\* zap_helper.open_url(url)
QuickScanOpenUrl ==
    /\ pc = "open_url"
    /\ Guarded("open_url", StageAfter(pc), <<>>)
    /\ UNCHANGED <<cmd, cli_soft_fail, environ0, options, env, alerts, reported, daemon, clock, deadline>>

\* if options['spider']: zap_helper.run_spider(url, context_name, user_name)
QuickScanSpider ==
    /\ pc = "spider"
    /\ IF options.spider
       THEN Guarded("run_spider", StageAfter(pc), <<>>)
       ELSE Skip(StageAfter(pc), <<>>)
    /\ UNCHANGED <<cmd, cli_soft_fail, environ0, options, env, alerts, reported, daemon, clock, deadline>>

\* mutant: the AJAX spider is run on the spider flag
QuickScanAjaxSpiderOnSpiderFlag ==
    /\ pc = "ajax_spider"
    /\ IF options.spider
       THEN Guarded("run_ajax_spider", StageAfter(pc), <<>>)
       ELSE Skip(StageAfter(pc), <<>>)
    /\ UNCHANGED <<cmd, cli_soft_fail, environ0, options, env, alerts, reported, daemon, clock, deadline>>

\* if options['ajax_spider']: zap_helper.run_ajax_spider(url)
QuickScanAjaxSpider ==
    /\ pc = "ajax_spider"
    /\ IF options.ajax_spider
       THEN Guarded("run_ajax_spider", StageAfter(pc), <<>>)
       ELSE Skip(StageAfter(pc), <<>>)
    /\ UNCHANGED <<cmd, cli_soft_fail, environ0, options, env, alerts, reported, daemon, clock, deadline>>

\* zap_helper.run_active_scan(url, recursive, context_name, user_name)
QuickScanActiveScan ==
    /\ pc = "active_scan"
    /\ Guarded("run_active_scan", StageAfter(pc), <<>>)
    /\ UNCHANGED <<cmd, cli_soft_fail, environ0, options, env, alerts, reported, daemon, clock, deadline>>

\* alerts = zap_helper.alerts(options['alert_level']), outside every handler
CollectAlerts(next) ==
    /\ calls' = Append(calls, "alerts")
    /\ \E ok \in BOOLEAN, raw \in SeqsUpTo(LevelNames, MaxAlerts) :
          IF ok
          THEN /\ alerts' = FilterAlerts(raw, options.alert_level)
               /\ pc' = next
               /\ UNCHANGED <<failed, console, exited, exit_code>>
          ELSE /\ alerts' = alerts
               /\ Uncaught("alerts")

QuickScanAlerts ==
    /\ pc = "alerts"
    /\ CollectAlerts(StageAfter(pc))
    /\ UNCHANGED <<cmd, cli_soft_fail, environ0, options, env, reported, daemon, clock, deadline>>

\* mutant: nothing is reported when soft-fail is active
QuickScanReportUnlessSoftFail ==
    /\ pc = "report"
    /\ reported' = IF options.soft_fail \/ Truthy(env) THEN <<>> ELSE alerts
    /\ pc' = StageAfter(pc)
    /\ UNCHANGED <<cmd, cli_soft_fail, environ0, options, env, calls, failed, alerts, console,
                   exited, exit_code, daemon, clock, deadline>>

\* helpers.report_alerts(alerts, options['output_format'])
QuickScanReport ==
    /\ pc = "report"
    /\ reported' = alerts
    /\ pc' = StageAfter(pc)
    /\ UNCHANGED <<cmd, cli_soft_fail, environ0, options, env, calls, failed, alerts, console,
                   exited, exit_code, daemon, clock, deadline>>

\* if options['self_contained']: zap_helper.shutdown()
QuickScanShutdown ==
    /\ pc = "shutdown"
    /\ IF options.self_contained
       THEN Guarded("shutdown", StageAfter(pc), <<"Shutting down ZAP daemon">>)
       ELSE Skip(StageAfter(pc), <<>>)
    /\ UNCHANGED <<cmd, cli_soft_fail, environ0, options, env, alerts, reported, daemon, clock, deadline>>

\* mutant: the option of the command is not consulted
QuickScanExitCodeEnvOnly(found, soft_fail, getenv) ==
    IF Len(found) > 0 /\ ~Truthy(getenv) THEN AlertsFoundExit ELSE 0

\* mutant: the status as it was before soft-fail (the commented-out line)
QuickScanExitCodeNoSoftFail(found, soft_fail, getenv) ==
    IF Len(found) > 0 THEN AlertsFoundExit ELSE 0

\* the soft-fail computation of the exit status
QuickScanExitCode(found, soft_fail, getenv) ==
    IF Len(found) > 0 /\ ~soft_fail /\ ~Truthy(getenv) THEN AlertsFoundExit ELSE 0

\* sys.exit(exit_code)
QuickScanExit ==
    /\ pc = "exit"
    /\ SysExit(QuickScanExitCode(alerts, options.soft_fail, env))
    /\ UNCHANGED <<cmd, cli_soft_fail, environ0, options, env, calls, failed, alerts, reported,
                   console, daemon, clock, deadline>>

\* ------------------------------------------------------------ show_alerts
ShowAlertsAlerts ==
    /\ pc = "sa_alerts"
    /\ CollectAlerts("sa_report")
    /\ UNCHANGED <<cmd, cli_soft_fail, environ0, options, env, reported, daemon, clock, deadline>>

ShowAlertsReport ==
    /\ pc = "sa_report"
    /\ reported' = alerts
    /\ pc' = "sa_exit"
    /\ UNCHANGED <<cmd, cli_soft_fail, environ0, options, env, calls, failed, alerts, console,
                   exited, exit_code, daemon, clock, deadline>>

\* mutant: an empty list counts as alerts found
ShowAlertsExitCodeAlways(found) == IF Len(found) >= 0 THEN AlertsFoundExit ELSE 0

ShowAlertsExitCode(found) == IF Len(found) > 0 THEN AlertsFoundExit ELSE 0

\* if exit_code: sys.exit(1 if len(alerts) > 0 else 0)
ShowAlertsExit ==
    /\ pc = "sa_exit"
    /\ IF options.exit_code THEN SysExit(ShowAlertsExitCode(alerts)) ELSE Return
    /\ UNCHANGED <<cmd, cli_soft_fail, environ0, options, env, calls, failed, alerts, reported,
                   console, daemon, clock, deadline>>

\* A command function that makes one ZAPHelper call inside
\* "with helpers.zap_error_handler()" and returns.
GuardedCommand(op, msg) ==
    /\ calls' = Append(calls, op)
    /\ \E ok \in BOOLEAN :
          IF ok
          THEN /\ console' = Append(console, msg)
               /\ Return
               /\ UNCHANGED failed
          ELSE ZapErrorHandler(op, Append(console, msg))

\* A command function that makes one ZAPHelper call outside every handler
\* and returns.
UnguardedCommand(op, msg) ==
    /\ calls' = Append(calls, op)
    /\ \E ok \in BOOLEAN :
          IF ok
          THEN /\ console' = Append(console, msg)
               /\ Return
               /\ UNCHANGED failed
          ELSE /\ failed' = op
               /\ console' = Append(console, msg)
               /\ SysExit(UncaughtExit)

\* ------------------------------------------------------- start_zap_daemon
StartZapDaemon ==
    /\ pc = "st_start"
    /\ GuardedCommand("start", "Starting ZAP daemon")
    /\ UNCHANGED <<cmd, cli_soft_fail, environ0, options, env, alerts, reported, daemon, clock, deadline>>

\* ---------------------------------------------------- shutdown_zap_daemon
ShutdownZapDaemon ==
    /\ pc = "sd_shutdown"
    /\ GuardedCommand("shutdown", "Shutting down ZAP daemon")
    /\ UNCHANGED <<cmd, cli_soft_fail, environ0, options, env, alerts, reported, daemon, clock, deadline>>

\* --------------------------------------------------------------- open_url
\* zap_helper.open_url(url), outside every handler
OpenUrl ==
    /\ pc = "ou_open"
    /\ UnguardedCommand("open_url", "Accessing URL")
    /\ UNCHANGED <<cmd, cli_soft_fail, environ0, options, env, alerts, reported, daemon, clock, deadline>>

\* ------------------------------------------------------------- spider_url
\* zap_helper.run_spider(url, context_name, user_name)
SpiderUrl ==
    /\ pc = "sp_spider"
    /\ GuardedCommand("run_spider", "Running spider...")
    /\ UNCHANGED <<cmd, cli_soft_fail, environ0, options, env, alerts, reported, daemon, clock, deadline>>

\* -------------------------------------------------------- ajax_spider_url
\* zap_helper.run_ajax_spider(url), outside every handler
AjaxSpiderUrl ==
    /\ pc = "aj_spider"
    /\ UnguardedCommand("run_ajax_spider", "Running AJAX Spider...")
    /\ UNCHANGED <<cmd, cli_soft_fail, environ0, options, env, alerts, reported, daemon, clock, deadline>>

\* ------------------------------------------------------------ active_scan
\* mutant: the scanners are set whether or not a selection was given
ActiveScanScannersAlways ==
    /\ pc = "as_scanners"
    /\ Guarded("set_enabled_scanners", "as_scan", <<"Running an active scan...">>)
    /\ UNCHANGED <<cmd, cli_soft_fail, environ0, options, env, alerts, reported, daemon, clock, deadline>>

\* if scanners: zap_helper.set_enabled_scanners(scanners)
ActiveScanScanners ==
    /\ pc = "as_scanners"
    /\ IF options.scanners /= None
       THEN Guarded("set_enabled_scanners", "as_scan", <<"Running an active scan...">>)
       ELSE Skip("as_scan", <<"Running an active scan...">>)
    /\ UNCHANGED <<cmd, cli_soft_fail, environ0, options, env, alerts, reported, daemon, clock, deadline>>

\* zap_helper.run_active_scan(url, recursive, context_name, user_name)
ActiveScanRun ==
    /\ pc = "as_scan"
    /\ calls' = Append(calls, "run_active_scan")
    /\ \E ok \in BOOLEAN :
          IF ok
          THEN /\ Return
               /\ UNCHANGED <<failed, console>>
          ELSE ZapErrorHandler("run_active_scan", console)
    /\ UNCHANGED <<cmd, cli_soft_fail, environ0, options, env, alerts, reported, daemon, clock, deadline>>

\* -------------------------------------------------- exclude_from_scanners
\* zap_helper.exclude_from_all(pattern)
ExcludeFromScanners ==
    /\ pc = "ex_exclude"
    /\ calls' = Append(calls, "exclude_from_all")
    /\ \E ok \in BOOLEAN :
          IF ok
          THEN /\ Return
               /\ UNCHANGED <<failed, console>>
          ELSE ZapErrorHandler("exclude_from_all", console)
    /\ UNCHANGED <<cmd, cli_soft_fail, environ0, options, env, alerts, reported, daemon, clock, deadline>>

\* ----------------------------------------------------------------- report
\* the renderer the output format selects
ReportRenderer(format) ==
    IF format = "html" THEN "html_report"
    ELSE IF format = "md" THEN "md_report"
    ELSE "xml_report"

\* the renderer is called outside every handler
Report ==
    /\ pc = "rp_report"
    /\ calls' = Append(calls, ReportRenderer(options.output_format))
    /\ \E ok \in BOOLEAN :
          IF ok
          THEN /\ console' = Append(console, "Report saved")
               /\ Return
               /\ UNCHANGED failed
          ELSE Uncaught(ReportRenderer(options.output_format))
    /\ UNCHANGED <<cmd, cli_soft_fail, environ0, options, env, alerts, reported, daemon, clock, deadline>>

\* ----------------------------------------------------------- check_status
\* zap_helper.is_running(): the daemon answers the probe
is_running == daemon.starts /\ clock >= daemon.at

\* --timeout was given ("timeout is not None")
HasTimeout(timeout) == timeout >= 0

\* mutant: a failed probe is retried whether or not --timeout was given
StatusBranchRetry(running, timeout) ==
    IF running THEN "running" ELSE "wait"

\* mutant: --timeout is ignored
StatusBranchNoWait(running, timeout) ==
    IF running THEN "running" ELSE "not running"

\* the branch check_status takes
StatusBranch(running, timeout) ==
    IF running THEN "running"
    ELSE IF HasTimeout(timeout) THEN "wait"
    ELSE "not running"

\* the body of check_status
CheckStatus ==
    /\ pc = "status"
    /\ IF StatusBranch(is_running, options.timeout) = "running"
       THEN /\ calls' = Append(calls, "is_running")
            /\ console' = Append(console, "ZAP is running")
            /\ Return
            /\ UNCHANGED <<failed, deadline>>
       ELSE IF StatusBranch(is_running, options.timeout) = "wait"
       THEN /\ calls' = calls \o <<"is_running", "wait_for_zap">>
            /\ deadline' = clock + options.timeout
            /\ pc' = "wait"
            /\ UNCHANGED <<failed, console, exited, exit_code>>
       ELSE /\ calls' = Append(calls, "is_running")
            /\ console' = Append(console, "ZAP is not running")
            /\ SysExit(NotRunningExit)
            /\ UNCHANGED <<failed, deadline>>
    /\ UNCHANGED <<cmd, cli_soft_fail, environ0, options, env, alerts, reported, daemon, clock>>

\* one turn of the loop of zap_helper.wait_for_zap(timeout): probe, give up
\* once the deadline has passed, otherwise sleep and probe again
WaitForZap ==
    /\ pc = "wait"
    /\ calls' = Append(calls, "is_running")
    /\ IF is_running
       THEN /\ console' = Append(console, "ZAP is running")
            /\ Return
            /\ UNCHANGED <<failed, clock>>
       ELSE IF clock >= deadline
       THEN /\ ZapErrorHandler("wait_for_zap", console)
            /\ UNCHANGED clock
       ELSE /\ clock' = clock + PollInterval
            /\ UNCHANGED <<pc, failed, console, exited, exit_code>>
    /\ UNCHANGED <<cmd, cli_soft_fail, environ0, options, env, alerts, reported, daemon, deadline>>

Next ==
    \/ Cli
    \/ QuickScanStart
    \/ QuickScanScanners
    \/ QuickScanExclude
    \/ QuickScanOpenUrl
    \/ QuickScanSpider
    \/ QuickScanAjaxSpider
    \/ QuickScanActiveScan
    \/ QuickScanAlerts
    \/ QuickScanReport
    \/ QuickScanShutdown
    \/ QuickScanExit
    \/ ShowAlertsAlerts
    \/ ShowAlertsReport
    \/ ShowAlertsExit
    \/ CheckStatus
    \/ WaitForZap
    \/ ActiveScanScanners
    \/ ActiveScanRun
    \/ ExcludeFromScanners
    \/ Report
    \/ StartZapDaemon
    \/ ShutdownZapDaemon
    \/ OpenUrl
    \/ SpiderUrl
    \/ AjaxSpiderUrl

Spec == Init /\ [][Next]_vars

\* the process is scheduled until it exits
FairSpec == Init /\ [][Next]_vars /\ WF_vars(Next)

TypeOK ==
    /\ cmd \in Commands
    /\ pc \in STRING
    /\ exited \in BOOLEAN
    /\ exit_code \in {0, 1, 2}
    /\ Len(alerts) <= MaxAlerts

\* ------------------------------------------------------------ properties
Count(op, seq) == Cardinality({i \in 1..Len(seq) : seq[i] = op})

Called(op) == Count(op, calls) > 0

\* the remote stages of quick-scan between start and shutdown, in the order
\* the contract gives them
StageOrder == <<"set_enabled_scanners", "exclude_from_all", "open_url", "run_spider",
                "run_ajax_spider", "run_active_scan", "alerts">>

StageOps == {StageOrder[i] : i \in 1..Len(StageOrder)}

Rank(op) == CHOOSE i \in 1..Len(StageOrder) : StageOrder[i] = op

StageCalls == SelectSeq(calls, LAMBDA op : op \in StageOps)

UserWithoutContext == options.user_name /= None /\ options.context_name = None

\* click accepted every parameter, so the command function was entered
Accepted == pc /= "cli" /\ failed /= "BadParameter"

\* the process-wide soft-fail override as quick-scan reads it
OverrideActive == env /= ""

\* C1: a self-contained quick-scan whose daemon was started has called
\* shutdown exactly once by the time the process exits, whichever of the
\* stages between start and shutdown failed.
C1_ShutdownOnEveryExitPath ==
    (cmd = "quick-scan" /\ Accepted /\ options.self_contained /\ exited /\ failed /= "start")
        => Count("shutdown", calls) = 1

\* C2: the stages of a quick-scan are called in the fixed order, each at most
\* once, and the stage that failed is the last stage called.
C2_FixedOrderAndAbort ==
    cmd = "quick-scan" =>
        /\ \A i, j \in 1..Len(StageCalls) :
              i < j => Rank(StageCalls[i]) < Rank(StageCalls[j])
        /\ failed \in StageOps => StageCalls[Len(StageCalls)] = failed

C2_Witness ==
    /\ cmd = "quick-scan"
    /\ exited
    /\ failed = "run_ajax_spider"
    /\ StageCalls = <<"set_enabled_scanners", "exclude_from_all", "open_url",
                      "run_spider", "run_ajax_spider">>

\* C3: a quick-scan whose stages all succeeded exits 0 when no alert was
\* collected, 0 when alerts were collected and the soft-fail flag or the
\* override is active, and 1 otherwise; the status computed from an alert
\* list, a flag and a value of the variable is the same for every alert
\* count and each of the four (flag, override) combinations.
C3_QuickScanExitPolicy ==
    /\ (cmd = "quick-scan" /\ exited /\ failed = None) =>
           exit_code = (IF alerts = <<>> THEN 0
                        ELSE IF options.soft_fail \/ OverrideActive THEN 0
                        ELSE 1)
    /\ \A n \in 0..MaxAlerts, flag \in BOOLEAN, v \in EnvValues :
           QuickScanExitCode([i \in 1..n |-> "High"], flag, v) =
               (IF n = 0 THEN 0 ELSE IF flag \/ v /= "" THEN 0 ELSE 1)

C3_Witness ==
    /\ cmd = "quick-scan"
    /\ exited
    /\ failed = None
    /\ Len(alerts) = MaxAlerts
    /\ options.soft_fail
    /\ ~OverrideActive
    /\ exit_code = 0

\* C4: the alerts command exits 0 when alerts were returned and the
\* soft-fail override is active, and exits 1 only when none is active.
C4_AlertsHonoursSoftFail ==
    (cmd = "alerts" /\ exited /\ failed = None /\ options.exit_code /\ alerts /= <<>>) =>
        exit_code = (IF options.soft_fail \/ OverrideActive THEN 0 ELSE 1)

\* C5: while a user name is given without a context name no remote call has
\* been made.
C5_UserWithoutContextRejected ==
    UserWithoutContext => calls = <<>>

\* the exit status the alert policy gives a quick-scan
AlertDrivenExit ==
    IF alerts /= <<>> /\ ~options.soft_fail /\ ~OverrideActive THEN 1 ELSE 0

\* C6: a self-contained quick-scan whose stages all succeeded and whose
\* shutdown call failed still exits with the alert-driven status.
C6_ShutdownFailureKeepsOutcome ==
    (cmd = "quick-scan" /\ options.self_contained /\ exited /\ failed = "shutdown")
        => exit_code = AlertDrivenExit

\* C7: a quick-scan in which start or one of the stages failed exits with a
\* status that is neither 0 nor the alert-threshold status 1.
C7_FailureExitsWithDistinctCode ==
    (cmd = "quick-scan" /\ exited /\ failed \in StageOps \cup {"start"})
        => exit_code \notin {0, 1}

InitiallyLive == daemon.starts /\ daemon.at = 0

\* C8: status without a timeout, the first probe failing, exits with status
\* 2 at once: wait_for_zap is not called and is_running was called once.
C8_StatusNoTimeoutFailsAtOnce ==
    (cmd = "status" /\ options.timeout < 0 /\ ~InitiallyLive /\ exited) =>
        /\ exit_code = 2
        /\ ~Called("wait_for_zap")
        /\ Count("is_running", calls) = 1
        /\ clock = 0

C8_Witness ==
    /\ cmd = "status"
    /\ options.timeout < 0
    /\ ~InitiallyLive
    /\ exited
    /\ calls = <<"is_running">>
    /\ console = <<"ZAP is not running">>

ReportsRunning ==
    /\ exit_code = 0
    /\ failed = None
    /\ console /= <<>>
    /\ console[Len(console)] = "ZAP is running"

\* C9: status with a timeout always exits; it reports running without
\* waiting when the daemon is already live, reports running with no error
\* when the daemon becomes live by the deadline, and otherwise fails with the
\* timeout error and a non-zero status.
C9_StatusWithTimeoutTerminates ==
    /\ (cmd = "status" /\ options.timeout >= 0) ~> exited
    /\ [](( cmd = "status" /\ options.timeout >= 0 /\ exited) =>
            IF InitiallyLive THEN ReportsRunning /\ ~Called("wait_for_zap")
            ELSE IF daemon.starts /\ daemon.at <= options.timeout THEN ReportsRunning
            ELSE failed = "wait_for_zap" /\ exit_code /= 0)

C9_Witness ==
    /\ cmd = "status"
    /\ options.timeout = MaxTimeout
    /\ daemon.starts
    /\ daemon.at = MaxTimeout
    /\ exited
    /\ Called("wait_for_zap")
    /\ ReportsRunning

\* C10: status exits with status 1 when ZAP is not running and no timeout
\* was given, and when it timed out waiting for ZAP.
C10_StatusExitsOne ==
    (cmd = "status" /\ exited /\ ~ReportsRunning) => exit_code = 1

\* the remote calls a quick-scan with these options makes when none fails;
\* neither the soft-fail flag nor the override is read
EnabledCalls(opts) ==
    (IF opts.self_contained THEN <<"start">> ELSE <<>>)
    \o (IF opts.scanners /= None THEN <<"set_enabled_scanners">> ELSE <<>>)
    \o (IF opts.exclude /= None THEN <<"exclude_from_all">> ELSE <<>>)
    \o <<"open_url">>
    \o (IF opts.spider THEN <<"run_spider">> ELSE <<>>)
    \o (IF opts.ajax_spider THEN <<"run_ajax_spider">> ELSE <<>>)
    \o <<"run_active_scan", "alerts">>
    \o (IF opts.self_contained THEN <<"shutdown">> ELSE <<>>)

IsPrefix(s, t) == Len(s) <= Len(t) /\ s = SubSeq(t, 1, Len(s))

\* C11: in a quick-scan the sequence of remote calls is the one the other
\* options and the collaborator's responses fix, whatever the soft-fail flag
\* and override; the list reported is the list the alert collection returned,
\* all of it at or above the requested level; soft-fail decides the exit only.
C11_SoftFailChangesOnlyExitCode ==
    cmd = "quick-scan" =>
        /\ IsPrefix(calls, EnabledCalls(options))
        /\ (exited /\ failed = None) => calls = EnabledCalls(options)
        /\ pc \in {"shutdown", "exit"} \/ (exited /\ failed \in {None, "shutdown"})
              => reported = alerts
        /\ \A i \in 1..Len(reported) :
              alert_levels(reported[i]) >= alert_levels(options.alert_level)

C11_Witness ==
    /\ cmd = "quick-scan"
    /\ exited
    /\ failed = None
    /\ options.self_contained
    /\ options.spider
    /\ options.alert_level = "High"
    /\ options.soft_fail
    /\ reported = <<"High", "High">>
    /\ calls = EnabledCalls(options)
    /\ exit_code = 0

BadRegexGiven == cmd \in {"quick-scan", "exclude"} /\ options.exclude = "("

BadScannerGiven == cmd \in {"quick-scan", "active-scan"} /\ options.scanners = "bogus"

\* C12: an invocation of quick-scan, active-scan or exclude given a pattern
\* that does not compile or a scanner token that resolves to nothing makes
\* no remote call at all, and ends with a non-zero status before its command
\* function starts.
C12_InvalidInputNoRemoteCall ==
    (BadRegexGiven \/ BadScannerGiven) =>
        /\ calls = <<>>
        /\ pc /= "cli" => (exited /\ exit_code /= 0)

C12_Witness ==
    /\ cmd = "quick-scan"
    /\ options.self_contained
    /\ options.exclude = "("
    /\ options.scanners = "xss"
    /\ exited
    /\ failed = "BadParameter"
    /\ calls = <<>>

\* C13: once a quick-scan has reached its active scan, run_spider has been
\* called exactly if the spider flag is set, run_ajax_spider exactly if the
\* ajax-spider flag is set, set_enabled_scanners exactly if scanners were
\* given, exclude_from_all exactly if a pattern was given, and open_url in
\* every case; a run that reaches the alert collection has called
\* run_active_scan.
C13_ConditionalStages ==
    cmd = "quick-scan" =>
        /\ Called("run_active_scan") =>
              /\ Called("run_spider") <=> options.spider
              /\ Called("run_ajax_spider") <=> options.ajax_spider
              /\ Called("set_enabled_scanners") <=> options.scanners /= None
              /\ Called("exclude_from_all") <=> options.exclude /= None
              /\ Called("open_url")
        /\ pc \in {"spider", "ajax_spider", "active_scan"} => Called("open_url")
        /\ pc = "alerts" \/ Called("alerts") => Called("run_active_scan")

C13_Witness ==
    /\ cmd = "quick-scan"
    /\ ~options.spider
    /\ options.ajax_spider
    /\ calls = <<"exclude_from_all", "open_url", "run_ajax_spider", "run_active_scan",
                 "alerts">>

\* C14: a quick-scan that is not self-contained calls neither start nor
\* shutdown; in a self-contained one start is the first remote call, and when
\* start fails it is the only one.
C14_StartShutdownOnlySelfContained ==
    cmd = "quick-scan" =>
        /\ ~options.self_contained => (~Called("start") /\ ~Called("shutdown"))
        /\ (options.self_contained /\ calls /= <<>>) => calls[1] = "start"
        /\ failed = "start" => calls = <<"start">>

C14_Witness ==
    /\ cmd = "quick-scan"
    /\ options.self_contained
    /\ options.scanners = "xss"
    /\ options.spider
    /\ exited
    /\ failed = "start"
    /\ calls = <<"start">>

Pos(op) == CHOOSE i \in 1..Len(calls) : calls[i] = op

\* the alerts of this quick-scan have been handed to the reporter
Reported == pc \in {"shutdown", "exit"} \/ (exited /\ failed \in {None, "shutdown"})

\* C15: in a quick-scan the alerts are collected only after run_active_scan
\* has returned without error and reported only after they were collected;
\* shutdown is called only after they were collected and reported, as the
\* last call; and a self-contained run whose daemon was started emits its
\* exit status, on whichever path it ends, only after shutdown was called.
C15_CollectReportShutdownExit ==
    cmd = "quick-scan" =>
        /\ Called("alerts") =>
              /\ Called("run_active_scan")
              /\ Pos("run_active_scan") < Pos("alerts")
              /\ failed /= "run_active_scan"
        /\ Reported => (Called("alerts") /\ failed /= "alerts")
        /\ Called("shutdown") =>
              /\ Called("alerts")
              /\ Pos("shutdown") = Len(calls)
              /\ reported = alerts
        /\ (options.self_contained /\ Accepted /\ failed /= "start"
               /\ (pc = "exit" \/ exited))
              => Called("shutdown")

\* C16: in an invocation of quick-scan, active-scan, alerts or report no
\* remote operation is called twice, whether it returned or raised.
C16_NoRetry ==
    cmd \in {"quick-scan", "active-scan", "alerts", "report"} =>
        \A i, j \in 1..Len(calls) : calls[i] = calls[j] => i = j

C16_Witness ==
    /\ cmd = "quick-scan"
    /\ exited
    /\ failed = "run_active_scan"
    /\ calls = <<"start", "set_enabled_scanners", "exclude_from_all", "open_url",
                 "run_spider", "run_ajax_spider", "run_active_scan">>

\* C17: in active-scan set_enabled_scanners is called only if a scanner
\* selection was given, then before run_active_scan; run_active_scan is
\* called after it exactly when a selection was given, and not at all when
\* set_enabled_scanners failed.
C17_ActiveScanScannersFirst ==
    cmd = "active-scan" =>
        /\ Called("set_enabled_scanners") => (options.scanners /= None /\ calls[1] = "set_enabled_scanners")
        /\ Called("run_active_scan") =>
              /\ Called("set_enabled_scanners") <=> options.scanners /= None
              /\ Pos("run_active_scan") = Len(calls)
        /\ failed = "set_enabled_scanners" => ~Called("run_active_scan")

C17_Witness ==
    /\ cmd = "active-scan"
    /\ options.scanners = "xss"
    /\ exited
    /\ failed = "set_enabled_scanners"
    /\ calls = <<"set_enabled_scanners">>

\* C18: a SOFT_FAIL variable that holds a non-empty string is never cleared
\* or emptied during the invocation, the group-level --soft-fail flag sets
\* it, and a quick-scan whose stages all succeeded and that collected alerts
\* exits 0 whenever the process was started with a non-empty SOFT_FAIL,
\* whatever its value, or the group-level flag was given.
C18_AnyNonEmptyValueSuppresses ==
    /\ [][env /= "" => env' /= ""]_vars
    /\ []((pc /= "cli" /\ (cli_soft_fail \/ environ0 /= "")) => env /= "")
    /\ []((cmd = "quick-scan" /\ exited /\ failed = None /\ alerts /= <<>>
              /\ (environ0 /= "" \/ cli_soft_fail))
            => exit_code = 0)

C18_Witness ==
    /\ cmd = "quick-scan"
    /\ environ0 = "false"
    /\ ~cli_soft_fail
    /\ options.self_contained
    /\ exited
    /\ failed = None
    /\ alerts /= <<>>
    /\ exit_code = 0

\* C19: the alerts command, its alert collection having succeeded, exits 1
\* exactly if --exit-code is true and the returned list is non-empty, and 0
\* otherwise; with --exit-code false it exits 0 whatever the alert count.
C19_AlertsExitCodeOption ==
    (cmd = "alerts" /\ exited /\ failed = None) =>
        exit_code = (IF options.exit_code /\ alerts /= <<>> THEN 1 ELSE 0)

C19_Witness ==
    /\ cmd = "alerts"
    /\ ~options.exit_code
    /\ Len(alerts) = MaxAlerts
    /\ reported = alerts
    /\ exited
    /\ exit_code = 0

====
